---- MODULE Spec2Model ----
(***************************************************************************)
(* Model of the zbus message Builder (zbus/src/message/builder.rs) and of  *)
(* the zvariant D-Bus serializer it drives (zvariant/src/dbus/ser.rs).     *)
(*                                                                         *)
(* Bytes are naturals 0..255.  Sizes that can exceed 2^31 (usize on a     *)
(* 64-bit target) are two-limb numbers [hi, lo] of value hi * 2^27 + lo.   *)
(* Strings and signatures are sequences of one-character strings.          *)
(***************************************************************************)
EXTENDS Integers, Sequences, FiniteSets, TLC

VARIABLES pc, header, res, msg, op, arg, nset, origin,
          common, frames, step, used

builderVars == <<pc, header, res, msg, op, arg, nset, origin>>

serVars == <<common, frames, step, used>>

vars == <<pc, header, res, msg, op, arg, nset, origin, common, frames, step, used>>

-----------------------------------------------------------------------------
(* Bounds of the model.                                                    *)

\* Setter calls applied to one builder.
MaxSetters == 2

\* Values handed to one serializer, containers opened on it aside.
MaxValues == 2

\* Containers opened or ended on one serializer, the arrays of MaxNested
\* aside.
MaxOpens == 4

\* Arrays opened first of all on one serializer, each as the first element
\* of the one before.
MaxNested == 31

-----------------------------------------------------------------------------
(* Sizes.                                                                  *)

\* header::MAX_MESSAGE_SIZE, 2^27 (spec section 3, "Total message size").
MAX_MESSAGE_SIZE == 134217728

\* A usize as [hi, lo], lo < MAX_MESSAGE_SIZE.
Big(n) == [hi |-> n \div MAX_MESSAGE_SIZE, lo |-> n % MAX_MESSAGE_SIZE]

BigAdd(x, n) ==
    [hi |-> x.hi + ((x.lo + n) \div MAX_MESSAGE_SIZE), lo |-> (x.lo + n) % MAX_MESSAGE_SIZE]

\* usize -> u32 conversion succeeds (u32::MAX = 32 * 2^27 - 1).
FitsU32(x) == x.hi < 32

\* x > MAX_MESSAGE_SIZE for a usize x.
BigExceedsMax(x) == x.hi > 1 \/ (x.hi = 1 /\ x.lo > 0)

\* The four little-endian bytes of a u32.
LE32(x) ==
    << x.lo % 256,
       (x.lo \div 256) % 256,
       (x.lo \div 65536) % 256,
       ((x.lo \div 16777216) % 8) + 8 * (x.hi % 32) >>

\* The eight little-endian bytes of a u64 below 2^27.
LE64(x) == LE32(x) \o <<0, 0, 0, 0>>

-----------------------------------------------------------------------------
(* Byte strings.  A slice &[u8] or a Vec<u8> is [data, zeros]: the bytes   *)
(* of data followed by zeros more bytes of value 0, so that a body of 2^27 *)
(* bytes is held without listing them.  zeros is a two-limb number in a    *)
(* slice and an integer in a Vec (a Vec is allocated only below 2^27).     *)

\* A slice of explicit bytes.
Slice(bs) == [data |-> bs, zeros |-> Big(0)]

\* A slice of x zero bytes.
ZeroSlice(x) == [data |-> << >>, zeros |-> x]

\* <[u8]>::len
SliceLen(sl) == BigAdd(sl.zeros, Len(sl.data))

\* Vec::new
VecNew == [data |-> << >>, zeros |-> 0]

\* Vec::len
RLen(buf) == Len(buf.data) + buf.zeros

\* The byte at 0-based index i (i < RLen(buf)).
RAt(buf, i) == IF i < Len(buf.data) THEN buf.data[i + 1] ELSE 0

ZeroSeq(n) == [i \in 1..n |-> 0]

\* Every byte of a short buffer, listed.
Bytes(buf) == buf.data \o ZeroSeq(buf.zeros)

\* buf from 0-based offset k (k <= Len(buf.data)) to its end.
RDrop(buf, k) == [data |-> SubSeq(buf.data, k + 1, Len(buf.data)), zeros |-> buf.zeros]

\* Canonical form: data does not end with a zero byte.
Norm(buf) ==
    LET nz   == {i \in 1..Len(buf.data) : buf.data[i] # 0}
        last == IF nz = {} THEN 0 ELSE CHOOSE i \in nz : \A k \in nz : k <= i
    IN  [data |-> SubSeq(buf.data, 1, last), zeros |-> buf.zeros + (Len(buf.data) - last)]

\* A Vec and a slice hold the same bytes.
SameBytes(buf, sl) ==
    /\ sl.zeros.hi = 0
    /\ Norm(buf) = Norm([data |-> sl.data, zeros |-> sl.zeros.lo])

-----------------------------------------------------------------------------
(* Signatures and the signature parser (spec sections 3 and 4.A).          *)

BasicCodes == {"y", "b", "n", "q", "i", "u", "x", "t", "d", "s", "o", "g", "h", "v"}

\* The byte of a character, as written by as_bytes(); "NUL" is the character
\* U+0000.
Ord(c) ==
    CASE c = "y" -> 121 [] c = "b" -> 98  [] c = "n" -> 110 [] c = "q" -> 113
      [] c = "i" -> 105 [] c = "u" -> 117 [] c = "x" -> 120 [] c = "t" -> 116
      [] c = "d" -> 100 [] c = "s" -> 115 [] c = "o" -> 111 [] c = "g" -> 103
      [] c = "h" -> 104 [] c = "v" -> 118 [] c = "a" -> 97  [] c = "(" -> 40
      [] c = ")" -> 41  [] c = "{" -> 123 [] c = "}" -> 125
      [] c = "/" -> 47  [] c = "." -> 46  [] c = ":" -> 58  [] c = "1" -> 49
      [] c = "2" -> 50  [] c = "4" -> 52  [] c = "e" -> 101 [] c = "r" -> 114
      [] c = "m" -> 109 [] c = "l" -> 108 [] c = "NUL" -> 0

OrdSeq(sig) == [i \in 1..Len(sig) |-> Ord(sig[i])]

\* Length of the one complete type that starts at index p of sig, 0 when
\* there is none (unknown code, unmatched bracket, nothing left).
RECURSIVE SigLenAt(_, _)
RECURSIVE FieldsLenAt(_, _, _)
SigLenAt(sig, p) ==
    IF p > Len(sig) THEN 0
    ELSE IF sig[p] \in BasicCodes THEN 1
    ELSE IF sig[p] = "a"
         THEN LET e == SigLenAt(sig, p + 1) IN IF e = 0 THEN 0 ELSE 1 + e
    ELSE IF sig[p] = "("
         THEN LET f == FieldsLenAt(sig, p + 1, ")") IN IF f < 0 THEN 0 ELSE f + 2
    ELSE IF sig[p] = "{"
         THEN LET f == FieldsLenAt(sig, p + 1, "}") IN IF f < 0 THEN 0 ELSE f + 2
    ELSE 0

\* Total length of the complete types from index p up to the closing
\* character close, -1 when the bracket is never closed.
FieldsLenAt(sig, p, close) ==
    IF p > Len(sig) THEN -1
    ELSE IF sig[p] = close THEN 0
    ELSE LET n == SigLenAt(sig, p)
         IN  IF n = 0 THEN -1
             ELSE LET r == FieldsLenAt(sig, p + n, close)
                  IN  IF r < 0 THEN -1 ELSE n + r

\* sig is a sequence of complete types from index p on.
RECURSIVE TypesFrom(_, _)
TypesFrom(sig, p) ==
    IF p > Len(sig) THEN TRUE
    ELSE LET n == SigLenAt(sig, p) IN n > 0 /\ TypesFrom(sig, p + n)

\* A signature the parser accepts: zero or more complete types.
WellFormed(sig) == TypesFrom(sig, 1)

\* The number of complete types sig is made of.
RECURSIVE CountTypes(_, _)
CountTypes(sig, p) ==
    IF p > Len(sig) THEN 0 ELSE 1 + CountTypes(sig, p + SigLenAt(sig, p))

\* One single struct: "(" ... ")" spanning the whole signature.
SingleStruct(sig) ==
    Len(sig) >= 2 /\ sig[1] = "(" /\ SigLenAt(sig, 1) = Len(sig)

\* Signature::slice(from..to), 0-based and end-exclusive.
SigSlice(sig, from, to) == SubSeq(sig, from + 1, to)

\* alignment_for_signature, D-Bus format (the alignment table of section 3).
Alignment(c) ==
    CASE c \in {"y", "g", "v"} -> 1
      [] c \in {"n", "q"} -> 2
      [] c \in {"b", "i", "u", "h", "s", "o", "a"} -> 4
      [] c \in {"x", "t", "d", "(", "{"} -> 8

\* utils::padding_for_8_bytes and padding_for_n_bytes.
PaddingForN(value, align) == (align - (value % align)) % align

padding_for_8_bytes(value) == PaddingForN(value, 8)

-----------------------------------------------------------------------------
(* Writers: std::io::Cursor<&mut Vec<u8>> and the byte-discarding sink of  *)
(* the measuring pass.                                                     *)

WNull == [kind |-> "null"]

WCursor(buf, pos) == [kind |-> "cursor", buf |-> buf, pos |-> pos]

\* Write::write_all of the slice sl at the current position: overwrites what
\* is there, extends the Vec at its end (zero-filled up to the position).
WWrite(w, sl) ==
    IF w.kind = "null" THEN w
    ELSE IF w.pos = Len(w.buf.data) /\ w.buf.zeros = 0
    THEN WCursor([data |-> w.buf.data \o sl.data, zeros |-> sl.zeros.lo],
                 w.pos + Len(sl.data) + sl.zeros.lo)
    ELSE LET old == Bytes(w.buf)
             src == sl.data \o ZeroSeq(sl.zeros.lo)
             gap == IF w.pos > Len(old) THEN ZeroSeq(w.pos - Len(old)) ELSE << >>
         IN  WCursor([data |-> SubSeq(old, 1, IF w.pos > Len(old) THEN Len(old) ELSE w.pos)
                                  \o gap \o src
                                  \o SubSeq(old, w.pos + Len(src) + 1, Len(old)),
                      zeros |-> 0],
                     w.pos + Len(src))

\* Seek::seek(SeekFrom::Current(off)) succeeds.
WSeekOk(w, off) == w.kind = "null" \/ w.pos + off >= 0

WSeek(w, off) == IF w.kind = "null" THEN w ELSE WCursor(w.buf, w.pos + off)

-----------------------------------------------------------------------------
(* Values handed to the serializer, as the serde calls they make.          *)

Unit == [t |-> "unit"]
U8(v) == [t |-> "u8", v |-> v]
U32(x) == [t |-> "u32", v |-> x]
U64(x) == [t |-> "u64", v |-> x]
I32(v) == [t |-> "i32", v |-> v]
Str(v) == [t |-> "str", v |-> v]
SeqV(elems) == [t |-> "seq", elems |-> elems]
MapV(entries) == [t |-> "map", entries |-> entries]
Field(name, val) == [name |-> name, val |-> val]
StructV(fields) == [t |-> "struct", fields |-> fields]
TupleV(vals) == StructV([i \in 1..Len(vals) |-> Field("", vals[i])])

\* zvariant::Value: a two-field struct, the signature then the payload.
Variant(sig, val) ==
    StructV(<< Field("zvariant::Value::Signature", Str(sig)),
               Field("zvariant::Value::Value", val) >>)

-----------------------------------------------------------------------------
(* SerializerCommon (spec section 4.C) and container depths.               *)

MAX_ARRAY_DEPTH == 32
MAX_STRUCT_DEPTH == 32
MAX_TOTAL_DEPTH == 64

NoDepths == [array |-> 0, structure |-> 0, variant |-> 0]

DepthOk(d) ==
    /\ d.array <= MAX_ARRAY_DEPTH
    /\ d.structure <= MAX_STRUCT_DEPTH
    /\ d.array + d.structure + d.variant <= MAX_TOTAL_DEPTH

\* Serializer::new: cursor at the start of the signature, nothing written.
SerNew(sig, w, fds, ctxt) ==
    [ctxt |-> ctxt, sig |-> sig, pos |-> 1, w |-> w, fds |-> fds, bw |-> 0,
     value_sign |-> << >>, depth |-> NoDepths, err |-> "ok"]

Fail(s, e) == [s EXCEPT !.err = e]

\* SignatureParser::next_char is available.
HasChar(s) == s.pos <= Len(s.sig)

NextChar(s) == s.sig[s.pos]

\* SignatureParser::skip_chars: at most one position past the end.
SkipChars(s, n) ==
    IF s.err # "ok" THEN s
    ELSE IF s.pos + n > Len(s.sig) + 1 THEN Fail(s, "InvalidSignature")
    ELSE [s EXCEPT !.pos = s.pos + n]

\* Write for SerializerCommon: forwards to the writer and counts the bytes.
SerWrite(s, bs) ==
    IF s.err # "ok" THEN s
    ELSE [s EXCEPT !.w = WWrite(s.w, Slice(bs)), !.bw = s.bw + Len(bs)]

\* The padding add_padding emits: computed from the absolute position.
PaddingAt(s, align) == PaddingForN(s.ctxt + s.bw, align)

add_padding(s, align) ==
    IF s.err # "ok" THEN s
    ELSE SerWrite(s, [i \in 1..PaddingAt(s, align) |-> 0])

\* prep_serialize_basic::<T>: the next code must be T's; pad to T's alignment.
prep_serialize_basic(s, code) ==
    IF s.err # "ok" THEN s
    ELSE IF ~HasChar(s) \/ NextChar(s) # code THEN Fail(s, "InvalidSignature")
    ELSE add_padding(SkipChars(s, 1), Alignment(code))

\* add_fd: append the descriptor, its index is the value written.
add_fd(s, fd) == [s EXCEPT !.fds = Append(s.fds, fd)]

-----------------------------------------------------------------------------
(* The D-Bus serializer (zvariant/src/dbus/ser.rs).  Every operator takes  *)
(* the serializer state and returns the state after the call; a failed     *)
(* call leaves err set and every later call returns at once (the `?`).     *)

Range(f) == {f[i] : i \in DOMAIN f}

\* serialize_u8
serialize_u8(s, v) == SerWrite(prep_serialize_basic(s, "y"), << v >>)

\* serialize_u32 (serialize_basic!)
serialize_u32(s, x) == SerWrite(prep_serialize_basic(s, "u"), LE32(x))

\* serialize_u64 (serialize_basic!)
serialize_u64(s, x) == SerWrite(prep_serialize_basic(s, "t"), LE64(x))

\* serialize_i32 at signature h: the descriptor is added to the list and
\* its index written.
SerializeFd(s1, v) == SerWrite(add_fd(s1, v), LE32(Big(Len(s1.fds))))

\* serialize_i32: a descriptor when the signature says h, else an i32.
serialize_i32(s, v) ==
    IF s.err # "ok" THEN s
    ELSE IF ~HasChar(s) THEN Fail(s, "InvalidSignature")
    ELSE IF NextChar(s) = "h"
         THEN SerializeFd(add_padding(SkipChars(s, 1), Alignment("u")), v)
         ELSE SerWrite(prep_serialize_basic(s, "i"), LE32(Big(v)))

\* serialize_str, lines 144-146: at signature v the string is stashed as
\* the signature of the value to come.
StashValueSign(s, v) ==
    IF NextChar(s) = "v" THEN [s EXCEPT !.value_sign = << v >>] ELSE s

\* serialize_str, lines 148-174: the length prefix by signature code.
StrPrefix_VariantAsString(s1, c, v) ==
    IF c \in {"o", "s", "v"}
    THEN SerWrite(add_padding(s1, Alignment("s")), LE32(Big(Len(v))))
    ELSE IF c = "g"
         THEN SerWrite(s1, << Len(v) >>)
         ELSE Fail(s1, "InvalidSignature")

StrPrefix(s1, c, v) ==
    IF c \in {"o", "s"}
    THEN SerWrite(add_padding(s1, Alignment("s")), LE32(Big(Len(v))))
    ELSE IF c \in {"g", "v"}
         THEN SerWrite(s1, << Len(v) >>)
         ELSE Fail(s1, "InvalidSignature")

\* serialize_str
serialize_str_NulAfterPrefix(s, v) ==
    IF s.err # "ok" THEN s
    ELSE IF ~HasChar(s) THEN Fail(s, "InvalidSignature")
    ELSE IF "NUL" \in Range(v)
         THEN Fail(StrPrefix(StashValueSign(s, v), NextChar(s), v), "InvalidValue")
    ELSE SerWrite(SerWrite(SkipChars(StrPrefix(StashValueSign(s, v), NextChar(s), v), 1),
                           OrdSeq(v)),
                  << 0 >>)

serialize_str(s, v) ==
    IF s.err # "ok" THEN s
    ELSE IF "NUL" \in Range(v) THEN Fail(s, "InvalidValue")
    ELSE IF ~HasChar(s) THEN Fail(s, "InvalidSignature")
    ELSE SerWrite(SerWrite(SkipChars(StrPrefix(StashValueSign(s, v), NextChar(s), v), 1),
                           OrdSeq(v)),
                  << 0 >>)

\* ContainerDepths::inc_array / inc_structure / inc_variant
IncDepth(s, kind) ==
    IF s.err # "ok" THEN s
    ELSE IF ~DepthOk([s.depth EXCEPT ![kind] = @ + 1]) THEN Fail(s, "MaxDepthReached")
    ELSE [s EXCEPT !.depth[kind] = @ + 1]

SeqSerializer(ser, start, ea, esl, fp) ==
    [kind |-> "Seq", ser |-> ser, start |-> start, element_alignment |-> ea,
     element_signature_len |-> esl, first_padding |-> fp]

\* serialize_seq, lines 289-299: start is taken after the first padding.
SeqPadded_StartsBeforePadding(s3, ea, esl, fp) ==
    SeqSerializer(IncDepth(s3, "array"), s3.bw - fp, ea, esl, fp)

SeqPadded(s3, ea, esl, fp) == SeqSerializer(IncDepth(s3, "array"), s3.bw, ea, esl, fp)

\* serialize_seq, lines 283-289: the element signature, its alignment and
\* the padding to it.
SeqElement(s1, esl) ==
    IF s1.err # "ok" THEN SeqSerializer(s1, 0, 1, 0, 0)
    ELSE IF esl = 0 THEN SeqSerializer(Fail(s1, "InvalidSignature"), 0, 1, 0, 0)
    ELSE SeqPadded(add_padding(s1, Alignment(NextChar(s1))), Alignment(NextChar(s1)),
                   esl, PaddingAt(s1, Alignment(NextChar(s1))))

\* SignatureParser::next_signature: the length of the next complete type.
NextSignatureLen(s) == IF s.err = "ok" THEN SigLenAt(s.sig, s.pos) ELSE 0

\* serialize_seq, lines 275-281: past the a, pad to 4, the length placeholder.
SeqPlaceholder(s) ==
    SerWrite(add_padding(SkipChars(s, 1), Alignment("a")), LE32(Big(0)))

\* serialize_seq: the SeqSerializer it returns.
serialize_seq(s) == SeqElement(SeqPlaceholder(s), NextSignatureLen(SeqPlaceholder(s)))

\* end_seq, lines 388-404: seek back to the placeholder, write the length,
\* seek forward again, leave the array.
Backpatch_SeeksPastLength(s1, alen, total) ==
    IF s1.err # "ok" THEN s1
    ELSE IF ~WSeekOk(s1.w, -total) THEN Fail(s1, "InputOutput")
    ELSE [s1 EXCEPT !.w = WSeek(WWrite(WSeek(s1.w, -total), Slice(LE32(Big(alen)))),
                                total),
                    !.depth.array = @ - 1]

Backpatch_KeepsDepth(s1, alen, total) ==
    IF s1.err # "ok" THEN s1
    ELSE IF ~WSeekOk(s1.w, -total) THEN Fail(s1, "InputOutput")
    ELSE [s1 EXCEPT !.w = WSeek(WWrite(WSeek(s1.w, -total), Slice(LE32(Big(alen)))),
                                total - 4)]

Backpatch(s1, alen, total) ==
    IF s1.err # "ok" THEN s1
    ELSE IF ~WSeekOk(s1.w, -total) THEN Fail(s1, "InputOutput")
    ELSE [s1 EXCEPT !.w = WSeek(WWrite(WSeek(s1.w, -total), Slice(LE32(Big(alen)))),
                                total - 4),
                    !.depth.array = @ - 1]

\* end_seq, lines 385-387
SeqLength_IgnoresPadding(s1, start, first_padding) ==
    Backpatch(s1, s1.bw - start, (s1.bw - start) + 4)

SeqLength(s1, start, first_padding) ==
    Backpatch(s1, s1.bw - start, (s1.bw - start) + first_padding + 4)

\* SeqSerializer::end_seq
end_seq(q) ==
    SeqLength(SkipChars(q.ser, q.element_signature_len), q.start, q.first_padding)

StructSerializer(ser, end_parens, container_depths) ==
    [kind |-> "Struct", ser |-> ser, end_parens |-> end_parens,
     container_depths |-> container_depths]

\* StructSerializer::variant
StructVariant(s) ==
    StructSerializer(IncDepth(add_padding(s, Alignment("v")), "variant"), 0, s.depth)

\* StructSerializer::structure
StructStructure(s) ==
    IF ~HasChar(s) \/ NextChar(s) \notin {"(", "{"} \/ SigLenAt(s.sig, s.pos) = 0
    THEN StructSerializer(Fail(s, "InvalidSignature"), 1, s.depth)
    ELSE StructSerializer(
             IncDepth(SkipChars(add_padding(s, Alignment(NextChar(s))), 1), "structure"),
             1, s.depth)

\* StructSerializer::unit
StructUnit(s) == StructSerializer(serialize_u8(s, 0), 0, s.depth)

\* serialize_struct: a struct serializer, or a sequence one at signature a.
serialize_struct(s, len) ==
    IF len = 0 THEN StructUnit(s)
    ELSE IF ~HasChar(s) THEN StructSerializer(Fail(s, "InvalidSignature"), 0, s.depth)
    ELSE IF NextChar(s) = "v" THEN StructVariant(s)
    ELSE IF NextChar(s) = "a" THEN serialize_seq(s)
    ELSE StructStructure(s)

\* end_struct, lines 550-551: the container depths are restored.
RestoreDepths(s1, container_depths) ==
    IF s1.err # "ok" THEN s1 ELSE [s1 EXCEPT !.depth = container_depths]

\* StructSerializer::end_struct
end_struct(q) ==
    RestoreDepths(IF q.end_parens > 0 THEN SkipChars(q.ser, q.end_parens) ELSE q.ser,
                  q.container_depths)

\* serialize_element, line 428: the cursor is put back after the element.
RestoreParser_Keeps(s1, pos) == s1

RestoreParser(s1, pos) == IF s1.err # "ok" THEN s1 ELSE [s1 EXCEPT !.pos = pos]

\* serialize_struct_element, lines 524-536: the serializer of the payload,
\* with a fresh cursor over the stashed signature.
ValueSerializer_CountsFromZero(outer) ==
    [outer EXCEPT !.sig = outer.value_sign[1], !.pos = 1, !.value_sign = << >>, !.bw = 0]

ValueSerializer(outer) ==
    [outer EXCEPT !.sig = outer.value_sign[1], !.pos = 1, !.value_sign = << >>]

\* serialize_struct_element, lines 537-538: the stash was taken, the writer
\* and descriptors are shared, the count is copied back when the payload
\* was serialized.
AfterValue(outer, inner) ==
    [outer EXCEPT !.value_sign = << >>, !.w = inner.w, !.fds = inner.fds,
                  !.bw = IF inner.err = "ok" THEN inner.bw ELSE outer.bw,
                  !.err = inner.err]

RECURSIVE Serialize(_, _)
RECURSIVE SerializeElements(_, _, _)
RECURSIVE SerializeFields(_, _, _)

\* SeqSerializer::serialize_element
serialize_element(q, v) ==
    [q EXCEPT !.ser = RestoreParser(Serialize(q.ser, v), q.ser.pos)]

\* StructSerializer::serialize_struct_element
serialize_struct_element(q, name, v) ==
    IF name = "zvariant::Value::Value"
    THEN IF q.ser.value_sign = << >>
         THEN [q EXCEPT !.ser = Fail(q.ser, "panic")]
         ELSE [q EXCEPT !.ser = AfterValue(q.ser, Serialize(ValueSerializer(q.ser), v))]
    ELSE [q EXCEPT !.ser = Serialize(q.ser, v)]

\* SeqSerializer::serialize_key: pad to the entry's alignment, then the key
\* with the cursor one past the {, and the cursor put back.
serialize_key(q, k) ==
    [q EXCEPT !.ser = RestoreParser(
         Serialize(SkipChars(add_padding(q.ser, q.element_alignment), 1), k), q.ser.pos)]

\* SeqSerializer::serialize_value: the value with the cursor two past the
\* start of the entry, and the cursor put back.
serialize_value(q, v) ==
    [q EXCEPT !.ser = RestoreParser(Serialize(SkipChars(q.ser, 2), v), q.ser.pos)]

\* The entries i.. of a map, key then value (SerializeMap).
RECURSIVE SerializeEntries(_, _, _)
SerializeEntries(q, entries, i) ==
    IF i > Len(entries) \/ q.ser.err # "ok" THEN q
    ELSE SerializeEntries(serialize_value(serialize_key(q, entries[i].k), entries[i].v),
                          entries, i + 1)

\* The elements i.. of a sequence, in order.
SerializeElements(q, elems, i) ==
    IF i > Len(elems) \/ q.ser.err # "ok" THEN q
    ELSE SerializeElements(serialize_element(q, elems[i]), elems, i + 1)

\* The fields i.. of a struct, in order (StructSeqSerializer dispatch).
SerializeFields(q, fields, i) ==
    IF i > Len(fields) \/ q.ser.err # "ok" THEN q
    ELSE SerializeFields(IF q.kind = "Seq"
                         THEN serialize_element(q, fields[i].val)
                         ELSE serialize_struct_element(q, fields[i].name, fields[i].val),
                         fields, i + 1)

\* SerializeSeq::end / SerializeStruct::end
End(q) ==
    IF q.ser.err # "ok" THEN q.ser
    ELSE IF q.kind = "Seq" THEN end_seq(q)
    ELSE end_struct(q)

\* value.serialize(&mut serializer), by the kind of value.
Serialize(s, v) ==
    IF s.err # "ok" THEN s
    ELSE CASE v.t = "unit"   -> s
           [] v.t = "u8"     -> serialize_u8(s, v.v)
           [] v.t = "u32"    -> serialize_u32(s, v.v)
           [] v.t = "u64"    -> serialize_u64(s, v.v)
           [] v.t = "i32"    -> serialize_i32(s, v.v)
           [] v.t = "str"    -> serialize_str(s, v.v)
           [] v.t = "seq"    -> End(SerializeElements(serialize_seq(s), v.elems, 1))
           [] v.t = "map"    -> End(SerializeEntries(serialize_seq(s), v.entries, 1))
           [] v.t = "struct" ->
                End(SerializeFields(serialize_struct(s, Len(v.fields)), v.fields, 1))

\* The u32 stored little-endian at offset p.
ReadU32(buf, p) ==
    RAt(buf, p) + 256 * RAt(buf, p + 1) + 65536 * RAt(buf, p + 2)
        + 16777216 * RAt(buf, p + 3)

-----------------------------------------------------------------------------
(* Optional<T> (zvariant/src/optional.rs), for T = &str and T = u32.       *)

OptNone == [some |-> FALSE]

OptSome(x) == [some |-> TRUE, value |-> x]

\* NoneValue::null_value of the type with that signature: Default::default().
null_value(ty) == IF ty = "s" THEN Str(<< >>) ELSE U32(Big(0))

\* impl Serialize for Optional<T>
OptionalSerialize(s, o, ty) ==
    IF o.some THEN Serialize(s, o.value) ELSE Serialize(s, null_value(ty))

\* The character of a byte (from_utf8 of what as_bytes wrote).
Chr(n) == CHOOSE c \in {"i", "m", "NUL"} : Ord(c) = n

\* The deserializer at signature s or u: padding to 4 from the absolute
\* position, then the u32 itself, or the u32 length, the bytes and the NUL.
DeserializeT(buf, ctxt, ty) ==
    IF ty = "s"
    THEN Str([i \in 1..ReadU32(buf, PaddingForN(ctxt, 4)) |->
                 Chr(RAt(buf, PaddingForN(ctxt, 4) + 3 + i))])
    ELSE U32(Big(ReadU32(buf, PaddingForN(ctxt, 4))))

OptionalDeserialize_AlwaysSome(value, ty) == OptSome(value)

\* impl Deserialize for Optional<T>, given the deserialized T::NoneType.
OptionalDeserialize(value, ty) ==
    IF value = null_value(ty) THEN OptNone ELSE OptSome(value)

-----------------------------------------------------------------------------
(* The message header (spec sections 3 and 4.F).                           *)

TypeNum(ty) ==
    CASE ty = "MethodCall" -> 1 [] ty = "MethodReturn" -> 2
      [] ty = "Error" -> 3 [] ty = "Signal" -> 4

Flags == {"NoReplyExpected", "NoAutoStart", "AllowInteractiveAuth"}

FlagBit(f) ==
    CASE f = "NoReplyExpected" -> 1 [] f = "NoAutoStart" -> 2
      [] f = "AllowInteractiveAuth" -> 4

RECURSIVE FlagsByte(_)
FlagsByte(fs) ==
    IF fs = {} THEN 0
    ELSE LET f == CHOOSE x \in fs : TRUE IN FlagBit(f) + FlagsByte(fs \ {f})

FieldCodeNum(c) ==
    CASE c = "Path" -> 1 [] c = "Interface" -> 2 [] c = "Member" -> 3
      [] c = "ErrorName" -> 4 [] c = "ReplySerial" -> 5 [] c = "Destination" -> 6
      [] c = "Sender" -> 7 [] c = "Signature" -> 8 [] c = "UnixFDs" -> 9

\* The signature of the variant that carries a field's value.
FieldSig(c) ==
    CASE c = "Path" -> << "o" >>
      [] c \in {"Interface", "Member", "ErrorName", "Destination", "Sender"} -> << "s" >>
      [] c \in {"ReplySerial", "UnixFDs"} -> << "u" >>
      [] c = "Signature" -> << "g" >>

\* A header field: its code and its value, a string (value) or, for the two
\* u32 fields, a number (num).
HField(code, value) == [code |-> code, value |-> value, num |-> 0]

HFieldU32(code, n) == [code |-> code, value |-> << >>, num |-> n]

\* Fields::add: appended, whatever is there.
FieldsAdd(fields, f) == Append(fields, f)

\* Fields::replace: in place of the field of the same code, else appended.
FieldsReplace(fields, f) ==
    IF \E i \in 1..Len(fields) : fields[i].code = f.code
    THEN [i \in 1..Len(fields) |-> IF fields[i].code = f.code THEN f ELSE fields[i]]
    ELSE Append(fields, f)

\* Fields::remove
FieldsRemove(fields, code) == SelectSeq(fields, LAMBDA f : f.code # code)

HasField(fields, code) == \E i \in 1..Len(fields) : fields[i].code = code

\* Fields::get_field: the first field of that code.
GetField(fields, code) ==
    fields[CHOOSE i \in 1..Len(fields) :
               /\ fields[i].code = code
               /\ \A j \in 1..(i - 1) : fields[j].code # code]

\* PrimaryHeader::new(msg_type, 0)
PrimaryNew(msg_type) ==
    [msg_type |-> msg_type, flags |-> {}, body_len |-> Big(0), serial_num |-> 0]

\* Header::new
HeaderNew(primary, fields) == [primary |-> primary, fields |-> fields]

\* The header as the serializer sees it: ((yyyyuu)a(yv)).
HeaderSig ==
    << "(", "(", "y", "y", "y", "y", "u", "u", ")", "a", "(", "y", "v", ")", ")" >>

FieldValue(f) ==
    TupleV(<< U8(FieldCodeNum(f.code)),
              Variant(FieldSig(f.code),
                      IF f.code \in {"ReplySerial", "UnixFDs"}
                      THEN U32(Big(f.num)) ELSE Str(f.value)) >>)

HeaderValue(h) ==
    TupleV(<< TupleV(<< U8(Ord("l")), U8(TypeNum(h.primary.msg_type)),
                        U8(FlagsByte(h.primary.flags)), U8(1),
                        U32(h.primary.body_len), U32(Big(h.primary.serial_num)) >>),
              SeqV([i \in 1..Len(h.fields) |-> FieldValue(h.fields[i])]) >>)

-----------------------------------------------------------------------------
(* Builder: constructors and setters (builder.rs lines 39-188, 351-360).   *)

\* Builder::new
new(msg_type) == HeaderNew(PrimaryNew(msg_type), << >>)

sender(h, v) == [h EXCEPT !.fields = FieldsReplace(@, HField("Sender", v))]

path(h, v) == [h EXCEPT !.fields = FieldsReplace(@, HField("Path", v))]

interface(h, v) == [h EXCEPT !.fields = FieldsReplace(@, HField("Interface", v))]

member(h, v) == [h EXCEPT !.fields = FieldsReplace(@, HField("Member", v))]

error_name(h, v) == [h EXCEPT !.fields = FieldsReplace(@, HField("ErrorName", v))]

destination_Adds(h, v) == [h EXCEPT !.fields = FieldsAdd(@, HField("Destination", v))]

destination(h, v) == [h EXCEPT !.fields = FieldsReplace(@, HField("Destination", v))]

reply_to_NoDestination(h, ref) ==
    [h EXCEPT !.fields = FieldsReplace(@, HFieldU32("ReplySerial", ref.primary.serial_num))]

\* Builder::reply_to
reply_to(h, ref) ==
    LET h1 == [h EXCEPT !.fields =
                   FieldsReplace(@, HFieldU32("ReplySerial", ref.primary.serial_num))]
    IN  IF HasField(ref.fields, "Sender")
        THEN destination(h1, GetField(ref.fields, "Sender").value)
        ELSE h1

method_call(p, m) == member(path(new("MethodCall"), p), m)

signal_NoInterface(p, i, m) == member(path(new("Signal"), p), m)

signal(p, i, m) == member(interface(path(new("Signal"), p), i), m)

method_return(ref) == reply_to(new("MethodReturn"), ref)

error(ref, name) == reply_to(error_name(new("Error"), name), ref)

\* The condition under which with_flags returns Err(InvalidField).
WithFlagsRejects(h, flag) ==
    h.primary.msg_type # "MethodCall" /\ flag = "NoReplyExpected"

with_flags_Overwrites(h, flag) == [h EXCEPT !.primary.flags = {flag}]

\* Builder::with_flags, the Ok case.
with_flags(h, flag) == [h EXCEPT !.primary.flags = @ \cup {flag}]

\* impl From<Header> for Builder
FromHeader_KeepsUnixFDs(h) == [h EXCEPT !.fields = FieldsRemove(@, "Signature")]

FromHeader(h) ==
    [h EXCEPT !.fields = FieldsRemove(FieldsRemove(@, "Signature"), "UnixFDs")]

-----------------------------------------------------------------------------
(* Reading the header back from the buffer (spec section 4.E).             *)

ReadBytes(buf, p, n) == [i \in 1..n |-> RAt(buf, p + i - 1)]

\* One (yv) entry of the field array at offset p (8-aligned): the field
\* and the offset after it.
ReadField(buf, p) ==
    LET code == RAt(buf, p)
        slen == RAt(buf, p + 1)
        c    == RAt(buf, p + 2)
        q    == p + 3 + slen
        q4   == q + PaddingForN(q, 4)
    IN  IF c = Ord("u")
        THEN [code |-> code, value |-> << >>, num |-> ReadU32(buf, q4), next |-> q4 + 4]
        ELSE IF c = Ord("g")
        THEN [code |-> code, value |-> ReadBytes(buf, q + 1, RAt(buf, q)), num |-> 0,
              next |-> q + 2 + RAt(buf, q)]
        ELSE [code |-> code, value |-> ReadBytes(buf, q4 + 4, ReadU32(buf, q4)),
              num |-> 0, next |-> q4 + 5 + ReadU32(buf, q4)]

\* The entries of the field array from offset p up to its end.
RECURSIVE ReadFields(_, _, _)
ReadFields(buf, p, end) ==
    IF p >= end THEN << >>
    ELSE LET f == ReadField(buf, p + PaddingForN(p, 8))
         IN  << [code |-> f.code, value |-> f.value, num |-> f.num] >>
                 \o ReadFields(buf, f.next, end)

\* Deserializing the header from the buffer: the primary header's body
\* length, the fields in wire order, and the number of bytes consumed.
ReadHeader(buf) ==
    [body_len |-> ReadU32(buf, 4),
     fields   |-> ReadFields(buf, 16, 16 + ReadU32(buf, 12)),
     consumed |-> 16 + ReadU32(buf, 12)]

-----------------------------------------------------------------------------
(* Builder: build, build_raw_body and build_generic (lines 200-348).       *)

Err(e) == [res |-> e, msg |-> << >>]

\* The body source handed to build_generic as the write_body closure.
TypedBody(val, sig) == [mode |-> "typed", val |-> val, sig |-> sig]
RawBody(bytes, fds) == [mode |-> "raw", bytes |-> bytes, fds |-> fds]

\* zvariant::serialized_size: the value serialized into a sink that keeps
\* nothing, with a fresh descriptor list.
serialized_size(ctxt, sig, val) ==
    Serialize(SerNew(sig, WNull, << >>, ctxt), val)

\* zvariant::to_writer: the value serialized at the cursor's position.
to_writer(cursor, ctxt, sig, val) ==
    Serialize(SerNew(sig, cursor, << >>, ctxt), val)

\* write_body(&mut cursor): the closure of build or of build_raw_body.
Written(s) == [w |-> s.w, fds |-> s.fds, err |-> s.err]

write_body_FromStart(src, cursor) ==
    IF src.mode = "typed"
    THEN Written(to_writer(cursor, 0, src.sig, src.val))
    ELSE [w |-> WWrite(WCursor(cursor.buf, 0), src.bytes), fds |-> src.fds, err |-> "ok"]

write_body(src, cursor) ==
    IF src.mode = "typed"
    THEN Written(to_writer(cursor, 0, src.sig, src.val))
    ELSE [w |-> WWrite(cursor, src.bytes), fds |-> src.fds, err |-> "ok"]

\* The signature written to the SIGNATURE field (lines 288-292).
StripSignature(signature) ==
    IF signature[1] = "("
    THEN SigSlice(signature, 1, Len(signature) - 1)
    ELSE signature

\* The header build_generic serializes (lines 286-305).
FinalHeader(h, signature, body_len, fds_len) ==
    LET h1 == IF signature # << >>
              THEN [h EXCEPT !.fields =
                        FieldsAdd(@, HField("Signature", StripSignature(signature)))]
              ELSE h
        h2 == [h1 EXCEPT !.primary.body_len = body_len]
    IN  IF fds_len # 0
        THEN [h2 EXCEPT !.fields = FieldsAdd(@, HFieldU32("UnixFDs", fds_len))]
        ELSE h2

TooLarge_AtLimit(total_len) == total_len.hi >= 1

\* The message size check of line 312.
TooLarge(total_len) == BigExceedsMax(total_len)

\* build_generic, lines 330-347: the header is read back, the assertion on
\* its length, the Message.
BuildMessage(hdr, hdr_len, body_offset, wb) ==
    IF wb.err # "ok" THEN Err(wb.err)
    ELSE IF ReadHeader(wb.w.buf).consumed # hdr_len THEN Err("panic")
    ELSE [res |-> "Ok",
          msg |-> [primary_header |-> hdr.primary,
                   quick_fields   |-> ReadHeader(wb.w.buf).fields,
                   bytes          |-> wb.w.buf,
                   body_offset    |-> body_offset,
                   fds            |-> wb.fds,
                   hdr_len        |-> hdr_len]]

\* build_generic, lines 319-328: the padding, one zero byte at a time, then
\* the body.
BuildBody(hdr, src, hdr_len, body_padding, c1) ==
    IF c1.err # "ok" THEN Err(c1.err)
    ELSE BuildMessage(hdr, hdr_len, hdr_len + body_padding,
                      write_body(src, WWrite(c1.w, Slice(ZeroSeq(body_padding)))))

\* build_generic, lines 309-318: the size check, then the header is
\* serialized into a new Vec.
BuildSized(hdr, body_len, src, hdr_len, body_padding) ==
    IF TooLarge(BigAdd(body_len, hdr_len + body_padding)) THEN Err("ExcessData")
    ELSE BuildBody(hdr, src, hdr_len, body_padding,
                   to_writer(WCursor(VecNew, 0), 0, HeaderSig, HeaderValue(hdr)))

BuildMeasured_AlignsTo4(hdr, body_len, src, measure) ==
    IF measure.err # "ok" THEN Err(measure.err)
    ELSE BuildSized(hdr, body_len, src, measure.bw, PaddingForN(measure.bw, 4))

\* build_generic, lines 307-309: the measured header length.
BuildMeasured(hdr, body_len, src, measure) ==
    IF measure.err # "ok" THEN Err(measure.err)
    ELSE BuildSized(hdr, body_len, src, measure.bw, padding_for_8_bytes(measure.bw))

\* build_generic, line 307
BuildHeader_MeasuresNoFields(hdr, body_len, src) ==
    BuildMeasured(hdr, body_len, src,
                  serialized_size(0, HeaderSig, HeaderValue([hdr EXCEPT !.fields = << >>])))

BuildHeader(hdr, body_len, src) ==
    BuildMeasured(hdr, body_len, src, serialized_size(0, HeaderSig, HeaderValue(hdr)))

\* Builder::build_generic
build_generic(h, signature, body_len, src, fds_len) ==
    IF ~FitsU32(body_len) THEN Err("ExcessData")
    ELSE BuildHeader(FinalHeader(h, signature, body_len, fds_len), body_len, src)

\* build, lines 209-235
BuildTyped(h, val, sig, body_size) ==
    IF body_size.err # "ok" THEN Err(body_size.err)
    ELSE build_generic(h, sig, Big(body_size.bw), TypedBody(val, sig), Len(body_size.fds))

\* Builder::build
build(h, val, sig) == BuildTyped(h, val, sig, serialized_size(0, sig, val))

\* Builder::build_raw_body
build_raw_body(h, body_bytes, signature, fds) ==
    IF ~WellFormed(signature) THEN Err("InvalidSignature")
    ELSE build_generic(h, signature, SliceLen(body_bytes), RawBody(body_bytes, fds),
                       Len(fds))

-----------------------------------------------------------------------------
(* Inputs.                                                                 *)

Paths == { << "/" >> }
Interfaces == { << "a", ".", "b" >> }
Members == { << "m" >> }
ErrorNames == { << "e", ".", "r" >> }
UniqueNames == { << ":", "1", ".", "4", "2" >> }
BusNames == { << ":", "1", ".", "2" >> }

\* Headers of messages to reply to: a call with and without SENDER.
ReplyHeaders ==
    { HeaderNew([PrimaryNew("MethodCall") EXCEPT !.serial_num = 7],
                << HField("Path", << "/" >>), HField("Member", << "m" >>),
                   HField("Sender", << ":", "1", ".", "4", "2" >>) >>),
      HeaderNew([PrimaryNew("MethodCall") EXCEPT !.serial_num = 2],
                << HField("Path", << "/" >>), HField("Member", << "m" >>) >>) }

\* Headers handed to From<Header>: a received signal with SIGNATURE and
\* UNIX_FDS, a return with its REPLY_SERIAL, and a call without its PATH.
GivenHeaders ==
    { HeaderNew([PrimaryNew("Signal") EXCEPT !.serial_num = 4],
                << HField("Path", << "/" >>), HFieldU32("UnixFDs", 1),
                   HField("Interface", << "a", ".", "b" >>),
                   HField("Signature", << "a", "h" >>),
                   HField("Member", << "m" >>) >>),
      HeaderNew([PrimaryNew("MethodReturn") EXCEPT !.serial_num = 4,
                                                  !.flags = {"NoAutoStart"}],
                << HFieldU32("ReplySerial", 7) >>),
      HeaderNew([PrimaryNew("MethodCall") EXCEPT !.serial_num = 4],
                << HField("Member", << "m" >>) >>) }

\* Values with the signature they advertise (DynamicType).
TypedBodies ==
    { [val |-> Unit, sig |-> << >>],
      [val |-> U32(Big(5)), sig |-> << "u" >>],
      [val |-> Str(<< "m" >>), sig |-> << "s" >>],
      [val |-> SeqV(<< I32(1), I32(2) >>), sig |-> << "a", "i" >>],
      [val |-> SeqV(<< >>), sig |-> << "a", "t" >>],
      [val |-> TupleV(<< SeqV(<< U64(Big(3)) >>), U8(1) >>),
       sig |-> << "(", "a", "t", "y", ")" >>],
      [val |-> TupleV(<< Str(<< "m" >>), Variant(<< "u" >>, U32(Big(9))) >>),
       sig |-> << "(", "s", "v", ")" >>],
      [val |-> I32(5), sig |-> << "h" >>],
      [val |-> TupleV(<< U8(1), SeqV(<< I32(5), I32(6) >>) >>),
       sig |-> << "(", "y", "a", "h", ")" >>],
      [val |-> U32(Big(5)), sig |-> << "s" >>] }

\* The body of tests::test_raw.
TestRawBody == << 16, 0, 0, 0, 1, 0, 0, 0, 2, 0, 0, 0, 3, 0, 0, 0, 4, 0, 0, 0 >>

\* Raw bodies of ordinary size with the signature and descriptors given.
RawInputs ==
    { [bytes |-> Slice(TestRawBody), sig |-> << "a", "i" >>, fds |-> << >>],
      [bytes |-> Slice(<< >>), sig |-> << >>, fds |-> << >>],
      [bytes |-> Slice(<< >>), sig |-> << "(", ")" >>, fds |-> << >>],
      [bytes |-> Slice(<< >>), sig |-> << "(" >>, fds |-> << >>],
      [bytes |-> Slice(<< 255, 1, 0 >>), sig |-> << "(", "i", ")" >>, fds |-> << 3 >>],
      [bytes |-> Slice(<< 1, 0, 0, 0, 2, 0, 0, 0 >>),
       sig |-> << "(", "i", ")", "(", "u", ")" >>, fds |-> << >>],
      [bytes |-> Slice(<< 0, 0, 0, 0, 1, 0, 0, 0 >>), sig |-> << "h", "h" >>,
       fds |-> << 3, 4 >>] }

\* A slice of 2^32 - back zero bytes (back is 0 or 1).
HugeBody(back) ==
    ZeroSlice(IF back = 0 THEN [hi |-> 32, lo |-> 0]
              ELSE [hi |-> 31, lo |-> MAX_MESSAGE_SIZE - back])

-----------------------------------------------------------------------------
(* The state machine: one builder, from its constructor to build.          *)
(*   pc     "start", "builder" (a Builder exists), "done" (consumed)       *)
(*   header the Builder's header                                           *)
(*   res    the Result of the last call: "Ok" or the error                 *)
(*   msg    the Message returned by build / build_raw_body, else << >>     *)
(*   op/arg the last call and its arguments                                *)
(*   nset   setter calls made on this builder                              *)
(*   origin how the builder was obtained: the constructor and its input    *)

NoBuilder ==
    /\ pc = "start"
    /\ header = << >>
    /\ res = "none"
    /\ msg = << >>
    /\ op = "none"
    /\ arg = << >>
    /\ nset = 0
    /\ origin = [by |-> "none"]

\* No serializer is being driven.
NoSerializer ==
    /\ common = << >>
    /\ frames = << >>
    /\ step = [call |-> "none"]
    /\ used = [values |-> 0, opens |-> 0, nested |-> 0]

Init == NoBuilder /\ NoSerializer

Created(h, name, a) ==
    /\ pc = "start"
    /\ pc' = "builder"
    /\ header' = h
    /\ res' = "Ok"
    /\ op' = name
    /\ arg' = a
    /\ origin' = [by |-> name, arg |-> a]
    /\ UNCHANGED <<msg, nset>>
    /\ UNCHANGED serVars

MethodCall ==
    \E p \in Paths, m \in Members :
        Created(method_call(p, m), "method_call", [path |-> p, member |-> m])

Signal ==
    \E p \in Paths, i \in Interfaces, m \in Members :
        Created(signal(p, i, m), "signal", [path |-> p, interface |-> i, member |-> m])

MethodReturn ==
    \E ref \in ReplyHeaders :
        Created(method_return(ref), "method_return", [ref |-> ref])

Error ==
    \E ref \in ReplyHeaders, e \in ErrorNames :
        Created(error(ref, e), "error", [ref |-> ref, name |-> e])

From ==
    \E h \in GivenHeaders : Created(FromHeader(h), "from", [header |-> h])

Set(h, name, a) ==
    /\ pc = "builder"
    /\ nset < MaxSetters
    /\ nset' = nset + 1
    /\ header' = h
    /\ res' = "Ok"
    /\ op' = name
    /\ arg' = a
    /\ UNCHANGED <<pc, msg, origin>>
    /\ UNCHANGED serVars

WithFlags ==
    /\ pc = "builder"
    /\ nset < MaxSetters
    /\ \E flag \in Flags :
          IF WithFlagsRejects(header, flag)
          THEN /\ pc' = "done"
               /\ res' = "InvalidField"
               /\ op' = "with_flags"
               /\ arg' = [flag |-> flag]
               /\ nset' = nset + 1
               /\ UNCHANGED <<header, msg, origin>>
               /\ UNCHANGED serVars
          ELSE Set(with_flags(header, flag), "with_flags", [flag |-> flag])

Sender == \E v \in UniqueNames : Set(sender(header, v), "sender", [v |-> v])

Path == \E v \in Paths : Set(path(header, v), "path", [v |-> v])

Interface == \E v \in Interfaces : Set(interface(header, v), "interface", [v |-> v])

Member == \E v \in Members : Set(member(header, v), "member", [v |-> v])

Destination == \E v \in BusNames : Set(destination(header, v), "destination", [v |-> v])

Built(r, name, a) ==
    /\ pc = "builder"
    /\ pc' = "done"
    /\ res' = r.res
    /\ msg' = r.msg
    /\ op' = name
    /\ arg' = a
    /\ UNCHANGED <<header, nset, origin>>
    /\ UNCHANGED serVars

Build ==
    \E b \in TypedBodies :
        Built(build(header, b.val, b.sig), "build", b)

BuildRawBody ==
    \E r \in RawInputs :
        Built(build_raw_body(header, r.bytes, r.sig, r.fds), "build_raw_body", r)

\* The body offset of the message the builder gives with an empty body.
EmptyBodyOffset(h) ==
    build_generic(h, << >>, Big(0), RawBody(Slice(<< >>), << >>), 0).msg.body_offset

BuiltRaw(b) ==
    Built(build_raw_body(header, b, << >>, << >>), "build_raw_body",
          [bytes |-> b, sig |-> << >>, fds |-> << >>])

\* build_raw_body with a body whose size is at the limits: d bytes more
\* than the largest body the header leaves room for, or 2^32 - back bytes.
BuildRawBodyLarge ==
    \/ \E d \in {-1, 0, 1} :
          BuiltRaw(ZeroSlice(Big(MAX_MESSAGE_SIZE - EmptyBodyOffset(header) + d)))
    \/ \E back \in {0, 1} : BuiltRaw(HugeBody(back))

Next ==
    \/ MethodCall \/ Signal \/ MethodReturn \/ Error \/ From
    \/ WithFlags \/ Sender \/ Path \/ Interface \/ Member \/ Destination
    \/ Build \/ BuildRawBody \/ BuildRawBodyLarge

Spec == Init /\ [][Next]_vars

-----------------------------------------------------------------------------
(* The serializer driven call by call, as a Serialize implementation       *)
(* drives it.                                                              *)
(*   common the SerializerCommon state the Serializer wraps                *)
(*   frames the SeqSerializers and StructSerializers not yet ended, the    *)
(*          innermost last; each borrows the serializer                    *)
(*   step   the last call, with the state it was made in                   *)
(*   used   values and containers handed to this serializer so far         *)

\* A signature of n nested arrays of bytes.
RECURSIVE NestedArrays(_)
NestedArrays(n) == IF n = 0 THEN << "y" >> ELSE << "a" >> \o NestedArrays(n - 1)

\* Bytes already in the Vec when the body is written after them.
HeaderBytes == [data |-> << 255, 255, 255, 255, 255, 255, 255, 255 >>, zeros |-> 0]

SerInputs ==
    { [sig |-> << "a", "i" >>, ctxt |-> 0, w |-> WCursor(VecNew, 0)],
      [sig |-> << "a", "t" >>, ctxt |-> 0, w |-> WCursor(HeaderBytes, 8)],
      [sig |-> << "a", "a", "y" >>, ctxt |-> 0, w |-> WCursor(VecNew, 0)],
      [sig |-> NestedArrays(MAX_ARRAY_DEPTH + 1), ctxt |-> 0, w |-> WCursor(VecNew, 0)],
      [sig |-> << "v" >>, ctxt |-> 0, w |-> WCursor(VecNew, 0)],
      [sig |-> << "a", "{", "s", "v", "}" >>, ctxt |-> 4, w |-> WCursor(VecNew, 0)],
      [sig |-> << "g", "s" >>, ctxt |-> 0, w |-> WCursor(VecNew, 0)],
      [sig |-> << "s" >>, ctxt |-> 2, w |-> WCursor(VecNew, 0)],
      [sig |-> << "u" >>, ctxt |-> 0, w |-> WCursor(VecNew, 0)] }

\* Values of Optional<&str> and of Optional<u32>.
Optionals(ty) ==
    IF ty = "s"
    THEN {OptNone, OptSome(Str(<< >>)), OptSome(Str(<< "m" >>)), OptSome(Str(<< "m", "i" >>))}
    ELSE {OptNone, OptSome(U32(Big(0))), OptSome(U32(Big(5)))}

SerValues ==
    { U8(1), I32(42), U64(Big(3)), Str(<< "i" >>), Str(<< "NUL", "m" >>),
      Variant(<< "i" >>, I32(42)) }

FieldNames == {"", "zvariant::Value::Signature", "zvariant::Value::Value"}

Top == frames[Len(frames)]

Pop == SubSeq(frames, 1, Len(frames) - 1)

InSeq == frames # << >> /\ Top.q.kind = "Seq"

InStruct == frames # << >> /\ Top.q.kind = "Struct"

\* The container serializer of a frame: it holds the &mut to the serializer.
Borrow(f) == [f.q EXCEPT !.ser = common]

\* The frame of a container just opened.  restore: the cursor the enclosing
\* serialize_element cloned (lines 424-425), 0 when the container is no
\* element of an array.  The rest records where the call was made:
\* open_pos the cursor, open_at the writer position, first_at the writer
\* position when the container serializer was returned.
FrameOf(q, c, in_seq) ==
    [q        |-> [q EXCEPT !.ser = << >>],
     restore  |-> IF in_seq THEN c.pos ELSE 0,
     open_pos |-> c.pos,
     open_at  |-> c.w.pos,
     open_abs |-> c.ctxt + c.bw,
     first_at |-> q.ser.w.pos]

Frame(q) == FrameOf(q, common, InSeq)

SerInit ==
    /\ NoBuilder
    /\ \E i \in SerInputs : common = SerNew(i.sig, i.w, << >>, i.ctxt)
    /\ frames = << >>
    /\ step = [call |-> "new"]
    /\ used = [values |-> 0, opens |-> 0, nested |-> 0]

\* One call on the serializer that returns a value or an error.
Called(after, call) ==
    /\ common' = after
    /\ step' = call
    /\ UNCHANGED builderVars

\* value.serialize(serializer) with a value that is no container call.
SerializeTop ==
    /\ common.err = "ok" /\ frames = << >> /\ used.values < MaxValues
    /\ \E v \in SerValues :
          Called(Serialize(common, v), [call |-> "serialize", before |-> common, v |-> v])
    /\ used' = [used EXCEPT !.values = @ + 1]
    /\ UNCHANGED frames

SerializeElement ==
    /\ common.err = "ok" /\ InSeq /\ used.values < MaxValues
    /\ \E v \in SerValues :
          Called(serialize_element(Borrow(Top), v).ser,
                 [call |-> "serialize_element", before |-> common, v |-> v])
    /\ used' = [used EXCEPT !.values = @ + 1]
    /\ UNCHANGED frames

SerializeKey ==
    /\ common.err = "ok" /\ InSeq /\ used.values < MaxValues
    /\ \E v \in SerValues :
          Called(serialize_key(Borrow(Top), v).ser,
                 [call |-> "serialize_key", before |-> common, v |-> v])
    /\ used' = [used EXCEPT !.values = @ + 1]
    /\ UNCHANGED frames

SerializeValue ==
    /\ common.err = "ok" /\ InSeq /\ used.values < MaxValues
    /\ \E v \in SerValues :
          Called(serialize_value(Borrow(Top), v).ser,
                 [call |-> "serialize_value", before |-> common, v |-> v])
    /\ used' = [used EXCEPT !.values = @ + 1]
    /\ UNCHANGED frames

SerializeStructElement ==
    /\ common.err = "ok" /\ InStruct /\ used.values < MaxValues
    /\ \E v \in SerValues, name \in FieldNames :
          Called(serialize_struct_element(Borrow(Top), name, v).ser,
                 [call |-> "serialize_struct_element", before |-> common, v |-> v,
                  name |-> name])
    /\ used' = [used EXCEPT !.values = @ + 1]
    /\ UNCHANGED frames

\* to_bytes of an Optional<T>: the serializer was made for its signature,
\* which is T's.
SerializeOptional ==
    /\ common.err = "ok" /\ frames = << >> /\ used.values = 0
    /\ common.sig \in {<< "s" >>, << "u" >>} /\ common.pos = 1
    /\ \E o \in Optionals(common.sig[1]) :
          Called(OptionalSerialize(common, o, common.sig[1]),
                 [call |-> "serialize_optional", before |-> common, o |-> o])
    /\ used' = [used EXCEPT !.values = @ + 1]
    /\ UNCHANGED frames

\* encoded.deserialize() of what to_bytes gave.
DeserializeOptional ==
    /\ common.err = "ok" /\ step.call = "serialize_optional"
    /\ step' = [call |-> "deserialize_optional", o |-> step.o,
                got |-> OptionalDeserialize(
                            DeserializeT(common.w.buf, common.ctxt, common.sig[1]),
                            common.sig[1])]
    /\ UNCHANGED <<common, frames, used>>
    /\ UNCHANGED builderVars

\* A container serializer was asked for: it is kept when the call succeeded.
Opened(q, call, count) ==
    /\ Called(q.ser, [call |-> call, before |-> common])
    /\ frames' = IF q.ser.err = "ok" THEN Append(frames, Frame(q)) ELSE frames
    /\ used' = [used EXCEPT ![count] = @ + 1]

\* serialize_seq as the first call on the serializer or as the first
\* element of the array opened by the call before.
SerializeNestedSeq ==
    /\ common.err = "ok" /\ used.nested < MaxNested
    /\ used.values = 0 /\ used.opens = 0 /\ Len(frames) = used.nested
    /\ Opened(serialize_seq(common), "serialize_seq", "nested")

\* serialize_seq, at the top level, as a struct member or as an element.
SerializeSeq ==
    /\ common.err = "ok" /\ used.opens < MaxOpens
    /\ Opened(serialize_seq(common), "serialize_seq", "opens")

\* serialize_struct of a struct of two members or of none.
SerializeStruct ==
    /\ common.err = "ok" /\ used.opens < MaxOpens
    /\ \E len \in {0, 2} : Opened(serialize_struct(common, len), "serialize_struct", "opens")

\* The container's end returned `ended`; when the container was an element
\* of an array, serialize_element then puts the cursor back (line 428).
Ended(ended, call) ==
    /\ Called(IF Top.restore > 0 THEN RestoreParser(ended, Top.restore) ELSE ended,
              [call |-> call, before |-> common, ended |-> ended, frame |-> Top])
    /\ frames' = Pop
    /\ used' = [used EXCEPT !.opens = @ + 1]

\* SerializeSeq::end
EndSeq ==
    /\ common.err = "ok" /\ InSeq /\ used.opens < MaxOpens
    /\ Ended(end_seq(Borrow(Top)), "end_seq")

\* SerializeStruct::end
EndStruct ==
    /\ common.err = "ok" /\ InStruct /\ used.opens < MaxOpens
    /\ Ended(end_struct(Borrow(Top)), "end_struct")

SerNext ==
    \/ SerializeTop \/ SerializeElement \/ SerializeKey \/ SerializeValue
    \/ SerializeStructElement \/ SerializeNestedSeq \/ SerializeSeq \/ SerializeStruct
    \/ EndSeq \/ EndStruct
    \/ SerializeOptional \/ DeserializeOptional

SerSpec == SerInit /\ [][SerNext]_vars

-----------------------------------------------------------------------------
(* Properties.                                                             *)

\* A Message was returned by build or build_raw_body.
Returned == pc = "done" /\ op \in {"build", "build_raw_body"} /\ res = "Ok"

\* The message carries a field of that code (read from its bytes).
MsgHas(code) ==
    \E i \in 1..Len(msg.quick_fields) : msg.quick_fields[i].code = FieldCodeNum(code)

\* The fields of that code the message carries.
MsgFields(code) ==
    SelectSeq(msg.quick_fields, LAMBDA f : f.code = FieldCodeNum(code))

\* The header fields a message type requires (spec section 3).
Required(ty) ==
    CASE ty = "MethodCall" -> {"Path", "Member"}
      [] ty = "MethodReturn" -> {"ReplySerial"}
      [] ty = "Error" -> {"ErrorName", "ReplySerial"}
      [] ty = "Signal" -> {"Path", "Interface", "Member"}

\* C1: with_flags(flag) returns Err(InvalidField) exactly when the message
\* type is not MethodCall and flag is NoReplyExpected; otherwise it succeeds,
\* the flags become the previous flags with flag added, and message type,
\* body length, serial and fields are unchanged.
C1_WithFlags ==
    [][op' = "with_flags" =>
         /\ res' \in {"Ok", "InvalidField"}
         /\ (res' = "InvalidField") <=>
                (header.primary.msg_type # "MethodCall" /\ arg'.flag = "NoReplyExpected")
         /\ res' = "Ok" =>
                /\ pc' = "builder"
                /\ header'.primary.flags = header.primary.flags \cup {arg'.flag}
                /\ header'.primary.msg_type = header.primary.msg_type
                /\ header'.primary.body_len = header.primary.body_len
                /\ header'.primary.serial_num = header.primary.serial_num
                /\ header'.fields = header.fields]_vars

\* A second flag was added to one already set.
C1_Witness ==
    /\ op = "with_flags"
    /\ res = "Ok"
    /\ header.primary.msg_type # "MethodCall"
    /\ Cardinality(header.primary.flags) = 2

\* C2: a builder made by method_return(h) or error(h, name) has REPLY_SERIAL
\* equal to h's serial and DESTINATION equal to h's SENDER when h has one,
\* and no DESTINATION when h has none; on any builder, reply_to with a header
\* without SENDER leaves the fields other than REPLY_SERIAL as they were.
C2_ReplyTo ==
    /\ op \in {"method_return", "error"} =>
         /\ HasField(header.fields, "ReplySerial")
         /\ GetField(header.fields, "ReplySerial").num = arg.ref.primary.serial_num
         /\ IF HasField(arg.ref.fields, "Sender")
            THEN /\ HasField(header.fields, "Destination")
                 /\ GetField(header.fields, "Destination").value
                        = GetField(arg.ref.fields, "Sender").value
            ELSE ~HasField(header.fields, "Destination")
    /\ pc = "builder" =>
         \A ref \in ReplyHeaders :
             ~HasField(ref.fields, "Sender") =>
                 FieldsRemove(reply_to(header, ref).fields, "ReplySerial")
                     = FieldsRemove(header.fields, "ReplySerial")

\* A reply to the header of serial 7 sent by :1.42.
C2_Witness ==
    /\ op = "method_return"
    /\ arg.ref.primary.serial_num = 7
    /\ GetField(header.fields, "ReplySerial").num = 7
    /\ GetField(header.fields, "Destination").value = << ":", "1", ".", "4", "2" >>

\* C3 as stated: every returned message carries the fields its type
\* requires, however the builder was obtained.
C3_RequiredFieldsAnyBuilder ==
    Returned => \A c \in Required(msg.primary_header.msg_type) : MsgHas(c)

\* The header given to From<Header> carries what its type requires.
GivenComplete ==
    origin.by = "from" =>
        \A c \in Required(origin.arg.header.primary.msg_type) :
            HasField(origin.arg.header.fields, c)

\* C3, amended: every returned message carries the fields its type requires
\* when the builder came from one of the four constructors, or from
\* From<Header> of a header that carries them.
C3_RequiredFields ==
    (Returned /\ GivenComplete) =>
        \A c \in Required(msg.primary_header.msg_type) : MsgHas(c)

\* A signal built after two setter calls.
C3_Witness ==
    /\ Returned
    /\ origin.by = "signal"
    /\ nset = 2
    /\ MsgHas("Path") /\ MsgHas("Interface") /\ MsgHas("Member")

\* The only SIGNATURE field of the message.
MsgSignature == MsgFields("Signature")[1].value

\* C4: in every returned message the SIGNATURE field is absent or holds a
\* non-empty signature, and it is absent exactly when the body signature is
\* empty.
C4_SignatureNonEmpty ==
    Returned =>
        /\ MsgHas("Signature") <=> (arg.sig # << >>)
        /\ MsgHas("Signature") => MsgSignature # << >>

\* The tuple of the top-level body types of a well-formed body signature.
TopLevelTuple(sig) ==
    IF SingleStruct(sig) THEN SigSlice(sig, 1, Len(sig) - 1) ELSE sig

\* C5: the SIGNATURE field of a returned message is the body signature
\* without its parentheses when the body is one single struct, and for every
\* other body signature the body signature itself, the well-formed tuple of
\* its top-level types.
C5_SignatureDescribesBody ==
    (Returned /\ arg.sig # << >>) =>
        /\ MsgHas("Signature")
        /\ MsgSignature = OrdSeq(TopLevelTuple(arg.sig))

\* The bytes of the message from body_offset to the end.
BodyBytes == RDrop(msg.bytes, msg.body_offset)

\* C6: in every returned message the body length of the primary header, and
\* the one written at offset 4 of the buffer, is the number of bytes from
\* body_offset to the end of the buffer; for build, it is the size the
\* measuring pass found.
C6_BodyLen ==
    Returned =>
        /\ msg.primary_header.body_len = Big(RLen(msg.bytes) - msg.body_offset)
        /\ ReadU32(msg.bytes, 4) = RLen(msg.bytes) - msg.body_offset
        /\ op = "build" =>
               serialized_size(0, arg.sig, arg.val).bw = RLen(msg.bytes) - msg.body_offset

\* A struct whose array is followed by another member, built by build.
C6_Witness ==
    /\ Returned
    /\ op = "build"
    /\ arg.sig = << "(", "a", "t", "y", ")" >>
    /\ RLen(msg.bytes) - msg.body_offset = 17

\* The same value serialized on its own at the position the body has in the
\* message.
AtAbsolutePosition ==
    Serialize(SerNew(arg.sig, WCursor(VecNew, 0), << >>, msg.body_offset), arg.val)

\* C7: the body starts at header_len + (8 - header_len mod 8) mod 8, a
\* multiple of 8 at most 7 bytes past the header, the bytes between the
\* header and the body are zero, and the body build wrote with base offset 0
\* is the one serialization at its absolute position gives.
C7_BodyOffset ==
    Returned =>
        /\ msg.hdr_len = ReadHeader(msg.bytes).consumed
        /\ msg.body_offset = msg.hdr_len + ((8 - (msg.hdr_len % 8)) % 8)
        /\ msg.body_offset % 8 = 0
        /\ msg.body_offset - msg.hdr_len \in 0..7
        /\ \A i \in msg.hdr_len..(msg.body_offset - 1) : RAt(msg.bytes, i) = 0
        /\ op = "build" => AtAbsolutePosition.w.buf = BodyBytes

\* A header that needs padding before a body with an 8-aligned member.
C7_Witness ==
    /\ Returned
    /\ op = "build"
    /\ arg.sig = << "(", "a", "t", "y", ")" >>
    /\ msg.body_offset - msg.hdr_len \in 1..7
    /\ RAt(msg.bytes, msg.hdr_len) = 0

\* A header that ends on an 8-byte boundary.
C7_WitnessUnpadded ==
    /\ Returned
    /\ msg.body_offset = msg.hdr_len

\* The total size of the message build_raw_body is asked for, when the
\* signature and the descriptor list are empty.
RawTotal == BigAdd(SliceLen(arg.bytes), EmptyBodyOffset(header))

\* C8: a build whose total exceeds 2^27, or whose body length does not fit
\* a u32, returns Err(ExcessData) and no message; a total of at most 2^27,
\* and of exactly 2^27, is accepted; every returned message is at most 2^27
\* bytes.
C8_ExcessData ==
    /\ (pc = "done" /\ op = "build_raw_body" /\ arg.sig = << >> /\ arg.fds = << >>) =>
          /\ (res = "ExcessData") <=>
                 (~FitsU32(SliceLen(arg.bytes)) \/ BigExceedsMax(RawTotal))
          /\ res \in {"Ok", "ExcessData"}
          /\ res = "ExcessData" => msg = << >>
    /\ Returned => RLen(msg.bytes) <= MAX_MESSAGE_SIZE

\* A message of exactly 2^27 bytes was returned.
C8_Witness ==
    /\ Returned
    /\ RLen(msg.bytes) = MAX_MESSAGE_SIZE

\* A body of 2^32 bytes and a total of 2^27 + 1 were refused.
C8_WitnessOverflow ==
    /\ op = "build_raw_body"
    /\ res = "ExcessData"
    /\ ~FitsU32(SliceLen(arg.bytes))

C8_WitnessOneMore ==
    /\ op = "build_raw_body"
    /\ res = "ExcessData"
    /\ RawTotal = [hi |-> 1, lo |-> 1]

\* C9: in every returned message UNIX_FDS is present exactly when the
\* message's descriptor table is non-empty, once, with the number of
\* descriptors as its value; build_raw_body's table is the list passed in,
\* build's has as many descriptors as the measuring pass counted.
C9_UnixFds ==
    Returned =>
        /\ MsgHas("UnixFDs") <=> (Len(msg.fds) > 0)
        /\ MsgHas("UnixFDs") =>
              /\ Len(MsgFields("UnixFDs")) = 1
              /\ MsgFields("UnixFDs")[1].num = Len(msg.fds)
        /\ op = "build_raw_body" => msg.fds = arg.fds
        /\ op = "build" => Len(msg.fds) = Len(serialized_size(0, arg.sig, arg.val).fds)

\* A typed body with two descriptors.
C9_Witness ==
    /\ Returned
    /\ op = "build"
    /\ Len(msg.fds) = 2
    /\ MsgFields("UnixFDs")[1].num = 2

\* A header that came with UNIX_FDS, built without descriptors.
C9_WitnessFrom ==
    /\ Returned
    /\ origin.by = "from"
    /\ HasField(origin.arg.header.fields, "UnixFDs")
    /\ msg.fds = << >>

\* The i32 stored little-endian at offset p.
ReadI32(buf, p) ==
    RAt(buf, p) + 256 * RAt(buf, p + 1) + 65536 * RAt(buf, p + 2)
        + 16777216 * (IF RAt(buf, p + 3) >= 128 THEN RAt(buf, p + 3) - 256
                      ELSE RAt(buf, p + 3))

\* A body of signature ai read back: the u32 length of the element region,
\* then its i32 elements.
DeserializeAI(buf) ==
    [i \in 1..(ReadU32(buf, 0) \div 4) |-> ReadI32(buf, 4 * i)]

\* C10: the body of the message build_raw_body returns is the bytes passed
\* in, byte for byte, whatever they are; the body of test_raw read by its
\* signature ai gives [1, 2, 3, 4].
C10_RawBody ==
    (Returned /\ op = "build_raw_body") =>
        /\ SameBytes(BodyBytes, arg.bytes)
        /\ arg.sig = << "a", "i" >> => DeserializeAI(BodyBytes) = << 1, 2, 3, 4 >>

\* The message of test_raw.
C10_Witness ==
    /\ Returned
    /\ op = "build_raw_body"
    /\ arg.bytes = Slice(TestRawBody)
    /\ DeserializeAI(BodyBytes) = << 1, 2, 3, 4 >>

\* Bytes that are no body of the signature given were taken as they are.
C10_WitnessInvalid ==
    /\ Returned
    /\ op = "build_raw_body"
    /\ arg.sig = << "(", "i", ")" >>
    /\ Bytes(BodyBytes) = << 255, 1, 0 >>

\* C11 as stated: every Optional<T>, None and Some(x) for every x, is what
\* deserializing its serialization gives.
C11_OptionalRoundTripAll ==
    step.call = "deserialize_optional" => step.got = step.o

\* C11, amended: None, and Some(x) for every x other than T's null value,
\* is what deserializing its serialization gives; Some(null value) comes
\* back as None.
C11_OptionalRoundTrip ==
    step.call = "deserialize_optional" =>
        step.got = IF step.o.some /\ step.o.value = null_value(common.sig[1])
                   THEN OptNone
                   ELSE step.o

\* Some("mi") came back from its ten bytes after two bytes of padding.
C11_Witness ==
    /\ step.call = "deserialize_optional"
    /\ step.o = OptSome(Str(<< "m", "i" >>))
    /\ step.got = step.o
    /\ common.ctxt = 2
    /\ RLen(common.w.buf) = 9

\* None came back as None.
C11_WitnessNone ==
    /\ step.call = "deserialize_optional"
    /\ step.o = OptNone
    /\ step.got = OptNone

\* The last call was an end_seq that succeeded.
SeqEnded == step.call = "end_seq" /\ step.ended.err = "ok"

\* Where the array ended by the last call has its length placeholder: after
\* the padding to 4 from where serialize_seq was called.
PlaceholderAt == step.frame.open_at + PaddingForN(step.frame.open_abs, 4)

\* The alignment of the elements of the array ended by the last call.
ElementAlignment == Alignment(step.before.sig[step.frame.open_pos + 1])

\* C12: the length written into an array's placeholder is the number of
\* bytes from the start of its first element to the end of its last one:
\* the placeholder and the padding to the element alignment after it, which
\* is there even when the array is empty, are not counted.
C12_ArrayLength ==
    SeqEnded =>
        /\ ReadU32(step.ended.w.buf, PlaceholderAt) =
               step.before.w.pos - step.frame.first_at
        /\ step.frame.first_at =
               PlaceholderAt + 4
                   + PaddingForN(step.frame.open_abs
                                     + PaddingForN(step.frame.open_abs, 4) + 4,
                                 ElementAlignment)
        /\ RLen(step.ended.w.buf) >= step.frame.first_at
        /\ \A i \in (PlaceholderAt + 4)..(step.frame.first_at - 1) :
               RAt(step.ended.w.buf, i) = 0

\* An array of u64 with one element after 4 bytes of padding: length 8.
C12_Witness ==
    /\ SeqEnded
    /\ step.before.sig = << "a", "t" >>
    /\ step.frame.first_at = PlaceholderAt + 8
    /\ step.before.w.pos = step.frame.first_at + 8
    /\ ReadU32(step.ended.w.buf, PlaceholderAt) = 8

\* An empty array of u64: length 0, and the 4 bytes of padding are there.
C12_WitnessEmpty ==
    /\ SeqEnded
    /\ step.before.sig = << "a", "t" >>
    /\ step.before.w.pos = step.frame.first_at
    /\ step.frame.first_at = PlaceholderAt + 8
    /\ RLen(step.ended.w.buf) = PlaceholderAt + 8
    /\ ReadU32(step.ended.w.buf, PlaceholderAt) = 0

\* An array whose one element is an array of one byte: length 5.
C12_WitnessNested ==
    /\ SeqEnded
    /\ step.before.sig = << "a", "a", "y" >>
    /\ frames = << >>
    /\ ReadU32(step.ended.w.buf, PlaceholderAt) = 5

\* The arrays opened on the serializer and not yet ended.
OpenArrays == Cardinality({i \in 1..Len(frames) : frames[i].q.kind = "Seq"})

\* serialize_seq was called at the start of an array signature that has an
\* element type.
SeqCalled ==
    /\ step.call = "serialize_seq"
    /\ HasChar(step.before) /\ NextChar(step.before) = "a"
    /\ SigLenAt(step.before.sig, step.before.pos + 1) > 0

\* C13: the array-nesting counter is the number of arrays opened and not yet
\* ended; serialize_seq with 32 arrays open fails with MaxDepthReached, and
\* with fewer open it succeeds, so an array after an ended one at the same
\* level never fails for depth.
C13_ArrayDepth ==
    /\ common.err = "ok" => common.depth.array = OpenArrays
    /\ SeqCalled =>
          /\ step.before.depth.array = OpenArrays - (IF common.err = "ok" THEN 1 ELSE 0)
          /\ step.before.depth.array = MAX_ARRAY_DEPTH => common.err = "MaxDepthReached"
          /\ step.before.depth.array < MAX_ARRAY_DEPTH => common.err = "ok"

\* The 33rd nested array was refused.
C13_Witness ==
    /\ SeqCalled
    /\ OpenArrays = MAX_ARRAY_DEPTH
    /\ common.err = "MaxDepthReached"

\* The 32nd nested array was opened.
C13_WitnessDeepest ==
    /\ SeqCalled
    /\ OpenArrays = MAX_ARRAY_DEPTH
    /\ common.err = "ok"

\* A second inner array was opened after the first was ended.
C13_WitnessSibling ==
    /\ SeqCalled
    /\ common.err = "ok"
    /\ step.before.sig = << "a", "a", "y" >>
    /\ used.opens >= 3
    /\ common.depth.array = 2

\* The last call serialized a variant holding the i32 42 with a new
\* serializer at signature v, base offset 0, into an empty buffer.
Variant42 ==
    /\ step.call = "serialize"
    /\ step.v = Variant(<< "i" >>, I32(42))
    /\ step.before = SerNew(<< "v" >>, WCursor(VecNew, 0), << >>, 0)

\* C14 as stated: the variant holding the i32 42 is the 11 bytes
\* 01 'i' 00, 00 00 00 00, 2a 00 00 00.
C14_VariantElevenBytes ==
    Variant42 =>
        /\ common.err = "ok"
        /\ Bytes(common.w.buf) = << 1, 105, 0, 0, 0, 0, 0, 42, 0, 0, 0 >>

\* C14, amended: the variant holding the i32 42 is the 8 bytes
\* 01 'i' 00, 00, 2a 00 00 00: the signature i as length, bytes and NUL,
\* the one byte of padding that takes offset 3 to 4, then the i32.
C14_VariantBytes ==
    Variant42 =>
        /\ common.err = "ok"
        /\ Bytes(common.w.buf) = << 1, 105, 0, 0, 42, 0, 0, 0 >>
        /\ common.bw = 8
        /\ PaddingForN(3, Alignment("i")) = 1

\* The variant was serialized and 8 bytes are in the buffer.
C14_Witness ==
    /\ Variant42
    /\ common.err = "ok"
    /\ RLen(common.w.buf) = 8
    /\ common.w.pos = 8

\* The last call was serialize_str on the serializer itself: a string
\* serialized at the top level, as an array element or as a struct member.
StrCalled ==
    /\ step.call \in {"serialize", "serialize_element", "serialize_struct_element"}
    /\ step.call = "serialize_struct_element" => step.name # "zvariant::Value::Value"
    /\ step.v.t = "str"

\* The last call returned an error and changed nothing else: no byte
\* written, bytes_written, cursor and stash as before.
NoEffect == common.err # "ok" /\ [common EXCEPT !.err = "ok"] = step.before

\* C15: serialize_str on a string containing NUL fails with the invalid-value
\* error whatever the next code is, and has no effect; it has no effect
\* either when the next code is none of s, o, g, v.
C15_StrRejected ==
    StrCalled =>
        /\ "NUL" \in Range(step.v.v) => common.err = "InvalidValue" /\ NoEffect
        /\ (HasChar(step.before) /\ NextChar(step.before) \notin {"s", "o", "g", "v"})
               => NoEffect

\* A string with NUL was refused at code v: nothing stashed.
C15_Witness ==
    /\ StrCalled
    /\ "NUL" \in Range(step.v.v)
    /\ HasChar(step.before) /\ NextChar(step.before) = "v"
    /\ common.err = "InvalidValue"
    /\ common.value_sign = << >>
    /\ common.bw = step.before.bw

\* A string with NUL was refused at code s, after a signature was written.
C15_WitnessString ==
    /\ StrCalled
    /\ "NUL" \in Range(step.v.v)
    /\ HasChar(step.before) /\ NextChar(step.before) = "s"
    /\ step.before.bw > 0

\* A string without NUL was refused at code i, as an array element.
C15_WitnessMismatch ==
    /\ StrCalled
    /\ "NUL" \notin Range(step.v.v)
    /\ step.call = "serialize_element"
    /\ HasChar(step.before) /\ NextChar(step.before) = "i"
    /\ NoEffect

FieldCodeNames ==
    {"Path", "Interface", "Member", "ErrorName", "ReplySerial", "Destination",
     "Sender", "Signature", "UnixFDs"}

\* The fields of that code in a field list.
FieldsOf(fields, code) == SelectSeq(fields, LAMBDA f : f.code = code)

\* The string setters and the code each sets.
SetterCode ==
    [path |-> "Path", interface |-> "Interface", member |-> "Member",
     destination |-> "Destination", sender |-> "Sender"]

\* C16: the header of every built message holds at most one field per code:
\* a setter leaves exactly one field of its code, with the value given;
\* From<Header> removes SIGNATURE and UNIX_FDS and keeps every other field
\* of the header given, in order and unchanged; build adds SIGNATURE and
\* UNIX_FDS to a header that has neither.
C16_OneFieldPerCode ==
    /\ pc \in {"builder", "done"} =>
          /\ \A c \in FieldCodeNames : Len(FieldsOf(header.fields, c)) <= 1
          /\ ~HasField(header.fields, "Signature")
          /\ ~HasField(header.fields, "UnixFDs")
    /\ (pc = "builder" /\ op \in DOMAIN SetterCode) =>
          FieldsOf(header.fields, SetterCode[op]) = << HField(SetterCode[op], arg.v) >>
    /\ (pc = "builder" /\ op = "from") =>
          /\ header.fields =
                 SelectSeq(origin.arg.header.fields,
                           LAMBDA f : f.code \notin {"Signature", "UnixFDs"})
          /\ header.primary = origin.arg.header.primary
    /\ Returned =>
          /\ \A c \in FieldCodeNames : Len(MsgFields(c)) <= 1
          /\ Len(msg.quick_fields) =
                 Len(header.fields) + Len(MsgFields("Signature")) + Len(MsgFields("UnixFDs"))

\* The DESTINATION that reply_to took from the call's SENDER was replaced.
C16_Witness ==
    /\ pc = "builder"
    /\ op = "destination"
    /\ origin.by = "method_return"
    /\ HasField(origin.arg.ref.fields, "Sender")
    /\ GetField(origin.arg.ref.fields, "Sender").value # arg.v
    /\ FieldsOf(header.fields, "Destination") = << HField("Destination", arg.v) >>

\* A header given with SIGNATURE ah and UNIX_FDS was built with a body of
\* signature u: the message has the one SIGNATURE u and the other fields.
C16_WitnessFrom ==
    /\ Returned
    /\ origin.by = "from"
    /\ HasField(origin.arg.header.fields, "Signature")
    /\ nset = 0
    /\ Len(MsgFields("Signature")) = 1
    /\ MsgSignature = OrdSeq(<< "u" >>)
    /\ Len(msg.quick_fields) = Len(origin.arg.header.fields) - 1

\* The last call serialized an element, a key or a value of the innermost
\* open array, and succeeded.
ElementSerialized ==
    /\ step.call \in {"serialize_element", "serialize_key", "serialize_value"}
    /\ common.err = "ok"

\* C17: while an array is open the cursor is at the start of its element
\* signature before every element, and is back there after every successful
\* serialize_element, serialize_key and serialize_value; end_seq moves it
\* past the element signature once, so that the array moved it by 1 + the
\* length of the element signature, whatever the number of elements.
C17_CursorRestored ==
    /\ (InSeq /\ common.err = "ok") => common.pos = Top.open_pos + 1
    /\ ElementSerialized => common.pos = step.before.pos
    /\ SeqEnded =>
          step.ended.pos =
              step.frame.open_pos + 1
                  + SigLenAt(step.before.sig, step.frame.open_pos + 1)

\* Two i32 elements went into an array of i32; the cursor is on the i.
C17_Witness ==
    /\ ElementSerialized
    /\ InSeq
    /\ common.sig = << "a", "i" >>
    /\ used.values = 2
    /\ common.bw = 12
    /\ common.pos = 2

\* An array of i32 was ended with no element: the cursor moved from 1 to 3.
C17_WitnessEmpty ==
    /\ SeqEnded
    /\ step.before.sig = << "a", "i" >>
    /\ used.values = 0
    /\ step.frame.open_pos = 1
    /\ common.pos = 3

\* An array of i32 was ended with two elements: the cursor moved from 1 to 3.
C17_WitnessTwo ==
    /\ SeqEnded
    /\ step.before.sig = << "a", "i" >>
    /\ used.values = 2
    /\ step.before.bw = 12
    /\ common.pos = 3

\* A key and a value went into an array of {sv}, and it was ended: the
\* cursor moved from 1 to 6.
C17_WitnessDict ==
    /\ SeqEnded
    /\ step.before.sig = << "a", "{", "s", "v", "}" >>
    /\ used.values = 2
    /\ step.before.bw > 8
    /\ common.pos = 6

\* build or build_raw_body was called and came back.
BuildCalled == pc = "done" /\ op \in {"build", "build_raw_body"}

\* C18: the assertion on the header length in build_generic never fails:
\* the bytes consumed reading the header back are the bytes the measuring
\* serialization counted, and build returns a message or an error.
C18_HeaderLengthAsserted ==
    BuildCalled =>
        /\ res # "panic"
        /\ res = "Ok" =>
              /\ ReadHeader(msg.bytes).consumed =
                     serialized_size(0, HeaderSig,
                         HeaderValue(FinalHeader(header, arg.sig,
                                                 Big(ReadHeader(msg.bytes).body_len),
                                                 Len(msg.fds)))).bw
              /\ ReadHeader(msg.bytes).consumed = msg.hdr_len

\* A message with five header fields and a body was built: the assertion
\* compared two lengths that are no multiple of 8.
C18_Witness ==
    /\ BuildCalled
    /\ res = "Ok"
    /\ Len(msg.quick_fields) >= 4
    /\ msg.hdr_len % 8 # 0
    /\ msg.hdr_len > 16
    /\ ReadHeader(msg.bytes).body_len > 0

\* The distance end_seq seeks back: the array's bytes, its first padding
\* and the 4 bytes of the placeholder.
SeekBack == (step.before.bw - step.frame.q.start) + step.frame.q.first_padding + 4

\* C19: the backpatch of end_seq changes only the 4 bytes of the array's
\* own placeholder, which are array_len + first_padding + 4 before the
\* writer's position; the writer's position, bytes_written, the length of
\* the buffer and every other byte, those before the body and the
\* placeholders of other arrays included, are as before.
C19_BackpatchOnlyPlaceholder ==
    SeqEnded =>
        /\ step.before.w.pos - SeekBack = PlaceholderAt
        /\ step.ended.w.pos = step.before.w.pos
        /\ step.ended.bw = step.before.bw
        /\ RLen(step.ended.w.buf) = RLen(step.before.w.buf)
        /\ \A i \in 0..(RLen(step.before.w.buf) - 1) :
               i \notin PlaceholderAt..(PlaceholderAt + 3) =>
                   RAt(step.ended.w.buf, i) = RAt(step.before.w.buf, i)
        /\ ReadU32(step.before.w.buf, PlaceholderAt) = 0

\* An array of u64 after 8 bytes already in the Vec: the length 8 went to
\* offsets 8..11 and the 8 bytes before them are as they were.
C19_Witness ==
    /\ SeqEnded
    /\ step.before.sig = << "a", "t" >>
    /\ PlaceholderAt = 8
    /\ SeekBack = 16
    /\ ReadU32(step.ended.w.buf, 8) = 8
    /\ ReadBytes(step.ended.w.buf, 0, 8) = HeaderBytes.data
    /\ step.ended.w.pos = 24

\* The outer array of an array of arrays was ended after an inner one with
\* one byte: the inner length 1 is still at offset 4.
C19_WitnessNested ==
    /\ SeqEnded
    /\ step.before.sig = << "a", "a", "y" >>
    /\ frames = << >>
    /\ PlaceholderAt = 0
    /\ ReadU32(step.ended.w.buf, 4) = 1
    /\ ReadU32(step.ended.w.buf, 0) = 5

\* The last call handed a value to the serializer.
ValueCalled ==
    step.call \in {"serialize", "serialize_element", "serialize_key", "serialize_value",
                   "serialize_struct_element"}

\* The last call was the payload element of a variant.
PayloadCalled ==
    step.call = "serialize_struct_element" /\ step.name = "zvariant::Value::Value"

\* Where in the signature the value of the last call was serialized.
ValueCodeAt ==
    step.before.pos + (CASE step.call = "serialize_key" -> 1
                         [] step.call = "serialize_value" -> 2
                         [] OTHER -> 0)

\* The serializer the payload of a variant is given to: a new cursor over
\* the stashed signature, the rest from the outer serializer.
PayloadSerializer ==
    [ctxt |-> step.before.ctxt, sig |-> step.before.value_sign[1], pos |-> 1,
     w |-> step.before.w, fds |-> step.before.fds, bw |-> step.before.bw,
     value_sign |-> << >>, depth |-> step.before.depth, err |-> "ok"]

\* What serializing the payload with that serializer gives.
PayloadSerialized == Serialize(PayloadSerializer, step.v)

\* C20: the pending variant signature is set only by serialize_str at code
\* v; the payload element named zvariant::Value::Value takes it, once, and
\* serializes the payload with a new cursor over it, on the same writer,
\* descriptors, context and depths, counting from the outer bytes_written;
\* afterwards the stash is empty, the outer bytes_written is the inner
\* count, and the outer cursor is past the one code v.
C20_VariantStash ==
    /\ (ValueCalled /\ common.value_sign # << >>
            /\ common.value_sign # step.before.value_sign) =>
          /\ step.v.t = "str"
          /\ common.value_sign = << step.v.v >>
          /\ ValueCodeAt <= Len(step.before.sig)
          /\ step.before.sig[ValueCodeAt] = "v"
    /\ (StrCalled /\ HasChar(step.before) /\ NextChar(step.before) = "v"
            /\ common.err = "ok") =>
          /\ common.value_sign = << step.v.v >>
          /\ step.call # "serialize_element" => common.pos = step.before.pos + 1
    /\ (PayloadCalled /\ step.before.value_sign = << >>) => common.err = "panic"
    /\ (PayloadCalled /\ step.before.value_sign # << >>) =>
          /\ common.value_sign = << >>
          /\ common.w = PayloadSerialized.w
          /\ common.fds = PayloadSerialized.fds
          /\ common.err = PayloadSerialized.err
          /\ common.err = "ok" => common.bw = PayloadSerialized.bw
          /\ common.pos = step.before.pos
          /\ common.sig = step.before.sig
          /\ common.depth = step.before.depth
          /\ common.ctxt = step.before.ctxt
    /\ (step.call = "serialize" /\ step.v = Variant(<< "i" >>, I32(42))
            /\ HasChar(step.before) /\ NextChar(step.before) = "v") =>
          /\ common.err = "ok"
          /\ common.value_sign = << >>
          /\ common.pos = step.before.pos + 1
          /\ common.depth = step.before.depth
          /\ common.bw = step.before.bw + 3
                 + PaddingForN(step.before.ctxt + step.before.bw + 3, 4) + 4

\* The payload 42 was serialized at the stashed signature i, from offset 3:
\* one byte of padding and four of the value.
C20_Witness ==
    /\ PayloadCalled
    /\ step.before.value_sign = << << "i" >> >>
    /\ step.before.bw = 3
    /\ step.v = I32(42)
    /\ common.err = "ok"
    /\ common.value_sign = << >>
    /\ common.bw = 8
    /\ common.pos = 2

\* The signature i was stashed by serialize_str at code v.
C20_WitnessStashed ==
    /\ StrCalled
    /\ step.call = "serialize_struct_element"
    /\ step.before.value_sign = << >>
    /\ common.value_sign = << << "i" >> >>
    /\ common.pos = 2

\* A payload element without a stashed signature.
C20_WitnessTwice ==
    /\ PayloadCalled
    /\ step.before.value_sign = << >>
    /\ common.err = "panic"

====
